---- MODULE Spec2Model ----
(***************************************************************************)
(* Model of the backend services.                                          *)
(*                                                                         *)
(* services/file_service.py: the notebook export                           *)
(* (FileService.export_notebook_as_zip) with its folder path resolver      *)
(* (_get_folder_path), content resolution (inline content, then blob       *)
(* storage through get_file_bytes_from_s3) and name sanitisation           *)
(* (_sanitize_filename); update_file and delete_file.                      *)
(* services/litellm_service.py: LiteLLMService.top_up_user_budget.         *)
(* services/notebook_service.py and notebook_template_service.py:          *)
(* NotebookService.create_notebook with the content creation template.     *)
(*                                                                         *)
(* Strings are sequences of one-character strings, text content is a       *)
(* sequence of Unicode code points and bytes are sequences of 0..255.      *)
(***************************************************************************)
EXTENDS Integers, Sequences, FiniteSets, TLC

VARIABLES
    \* export_notebook_as_zip and _get_folder_path
    s3_client,      \* FileService.s3_client is configured (TRUE) or None (FALSE)
    folder_repo,    \* FileService.folder_repo is configured (TRUE) or None (FALSE)
    notebook_name,  \* the notebook_name argument of the export
    pc,             \* position of the export coroutine
    files,          \* local `files` of export_notebook_as_zip
    folders,        \* local `folders` of export_notebook_as_zip (all_folders of the resolver)
    zipf,           \* entries written to zipf, in order: [name, data]
    idx,            \* number of files of `files` the loop has gone through
    s3_gets,        \* get_object calls made: [key, ok, body]
    skipped,        \* indexes of files whose iteration ended in the except branch
    error,          \* exception that left export_notebook_as_zip ("" when none)
    resolved,       \* results of _get_folder_path applied folder by folder
    calls,          \* methods called on the repositories, the session and the S3 client
    \* _sanitize_filename on its own
    sanitize_arg,   \* the argument of the first call
    sanitized,      \* results of _sanitize_filename applied again and again
    \* exports running side by side over the persisted notebook
    db_files,       \* the File rows of the notebook, in listing order
    db_folders,     \* the Folder rows of the notebook, in listing order
    db_history,     \* every <<db_files, db_folders>> the database has held
    exports,        \* the locals of each invocation: [notebook_name, pc, files, folders, zipf, idx]
    \* LiteLLMService.top_up_user_budget against the proxy
    max_budget,     \* max_budget the proxy stores for the key: [set, val]
    budget_before,  \* what the proxy stored before the calls
    topups,         \* the locals of each call: [pc, amount_to_add, current_max_budget, ...]
    \* NotebookService.create_notebook with the content creation template
    template_service, \* NotebookService.template_service is injected (TRUE) or None (FALSE)
    nb_pc,          \* position of create_notebook
    nb_i,           \* items the loop at nb_pc has gone through
    pending,        \* objects added to the session and not committed
    committed,      \* objects committed to the database
    template_error, \* apply_content_creation_template raised
    nb_result,      \* "" while running, "returned" or "raised"
    \* FileService.update_file and delete_file
    file_rows,      \* the File rows of the database: [id, user_id, unique_filename, filename]
    bucket_keys,    \* keys of the objects of the bucket
    commits,        \* session.commit() calls made
    last_call       \* the last call: arguments, result, and the state it started from

exportVars == <<s3_client, folder_repo, notebook_name, pc, files, folders, zipf, idx,
                s3_gets, skipped, error, resolved, calls>>
sanitizeVars == <<sanitize_arg, sanitized>>
notebookVars == <<db_files, db_folders, db_history, exports>>
budgetVars == <<max_budget, budget_before, topups>>

createVars == <<template_service, nb_pc, nb_i, pending, committed, template_error,
                nb_result>>

ownerVars == <<file_rows, bucket_keys, commits, last_call>>

vars == <<exportVars, sanitizeVars, notebookVars, budgetVars, createVars, ownerVars>>

\* The variables outside each part of the model.
outsideExport == <<sanitizeVars, notebookVars, budgetVars, createVars, ownerVars>>
outsideSanitize == <<exportVars, notebookVars, budgetVars, createVars, ownerVars>>
outsideNotebook == <<exportVars, sanitizeVars, budgetVars, createVars, ownerVars>>
outsideBudget == <<exportVars, sanitizeVars, notebookVars, createVars, ownerVars>>
outsideCreate == <<exportVars, sanitizeVars, notebookVars, budgetVars, ownerVars>>
outsideOwner == <<exportVars, sanitizeVars, notebookVars, budgetVars, createVars>>

\* Initial values of the variables of _sanitize_filename on its own.
SanitizeIdle ==
    /\ sanitize_arg = <<>>
    /\ sanitized = <<>>

\* Initial values of the variables of the persisted notebook and the
\* invocations over it.
NotebookIdle ==
    /\ db_files = <<>>
    /\ db_folders = <<>>
    /\ db_history = {}
    /\ exports = <<>>

\* Initial values of the variables of the top-up.
BudgetIdle ==
    /\ max_budget = [set |-> FALSE, val |-> 0]
    /\ budget_before = max_budget
    /\ topups = <<>>

\* Initial values of the variables of create_notebook.
CreateIdle ==
    /\ template_service = FALSE
    /\ nb_pc = "idle"
    /\ nb_i = 0
    /\ pending = {}
    /\ committed = {}
    /\ template_error = FALSE
    /\ nb_result = ""

\* Initial values of the variables of update_file and delete_file.
OwnerIdle ==
    /\ file_rows = <<>>
    /\ bucket_keys = {}
    /\ commits = 0
    /\ last_call = [n |-> 0, op |-> "none", user_id |-> "", file_id |-> 0, result |-> "",
                    rows_before |-> <<>>, keys_before |-> {}, commits_before |-> 0]

OutsideExportIdle == SanitizeIdle /\ NotebookIdle /\ BudgetIdle /\ CreateIdle /\ OwnerIdle

(***************************************************************************)
(* Bounds of the model.                                                    *)
(***************************************************************************)
MaxFolders == 2
MaxFiles == 2
\* Folders of the lists the resolver is applied to on its own.
MaxPathFolders == 3
\* Characters of the names _sanitize_filename is applied to on its own.
MaxNameLen == 3
\* Largest amount_to_add of a top-up and largest max_budget the proxy holds
\* before the calls, in units of money.
MaxAmount == 2
MaxStoredBudget == 2
\* Writes of other requests to the notebook while an export runs.
MaxWrites == 2
\* File rows of the database and calls of update_file and delete_file.
MaxRows == 2
MaxCalls == 2

\* Depth at which the interpreter stops a recursion with RecursionError.  It
\* stays above the longest acyclic parent chain the bounds allow.
RecursionLimit == MaxFolders + MaxPathFolders

(***************************************************************************)
(* Values.                                                                 *)
(***************************************************************************)
\* Python None where an identifier is expected.
NoneId == [kind |-> "none", val |-> 0]
\* An identifier held as a uuid.UUID object.
Uuid(n) == [kind |-> "uuid", val |-> n]
\* An identifier held as the str of a UUID.
StrId(n) == [kind |-> "str", val |-> n]

\* str(x) of an identifier: the canonical text of the UUID, whichever way it
\* is held.  The text is modelled by the number that names the UUID.
Str(x) == IF x.kind = "none" THEN 0 ELSE x.val

\* Truth value of an identifier in `if folder.parent_id:` / `if file.folder_id:`.
Truthy(x) == x.kind # "none"

\* Python None, "" / b"" and non-empty str / bytes content of a File.
NoContent == [kind |-> "none", val |-> <<>>]
TextContent(cps) == [kind |-> "str", val |-> cps]
BytesContent(bs) == [kind |-> "bytes", val |-> bs]

\* Truth value of file.content in `if file.content:`.
ContentTruthy(c) == c.kind # "none" /\ c.val # <<>>

Slash == <<"/">>

(***************************************************************************)
(* Folder path resolver: FileService._get_folder_path.                     *)
(***************************************************************************)
\* next((f for f in all_folders if str(f.id) == str(id)), None): the index of
\* the first folder of the list whose id has the same text, 0 for None.
FindFolderNative(all_folders, id) ==
    LET m == {i \in 1..Len(all_folders) : all_folders[i].id = id}
    IN  IF m = {} THEN 0 ELSE CHOOSE i \in m : \A j \in m : i <= j

FindFolder(all_folders, id) ==
    LET m == {i \in 1..Len(all_folders) : Str(all_folders[i].id) = Str(id)}
    IN  IF m = {} THEN 0 ELSE CHOOSE i \in m : \A j \in m : i <= j

\* What a call returns: a path, or RecursionError raised out of it.
Returned(p) == [raised |-> FALSE, path |-> p]
RecursionError == [raised |-> TRUE, path |-> <<>>]

\* folder.name if not path else f"{folder.name}/{path}"
CurrentPathAlwaysJoined(folder, path) == folder.name \o Slash \o path

CurrentPath(folder, path) ==
    IF path = <<>> THEN folder.name ELSE folder.name \o Slash \o path

\* _get_folder_path(folder, all_folders, path) running at stack depth `depth`.
RECURSIVE _get_folder_path(_, _, _, _)
_get_folder_path(folder, all_folders, path, depth) ==
    IF depth > RecursionLimit
    THEN RecursionError
    ELSE LET current_path == CurrentPath(folder, path)
             parent == IF Truthy(folder.parent_id)
                       THEN FindFolder(all_folders, folder.parent_id)
                       ELSE 0
         IN  IF parent # 0
             THEN _get_folder_path(all_folders[parent], all_folders,
                                   current_path, depth + 1)
             ELSE Returned(current_path)

\* The call self._get_folder_path(folder, folders) with the default path "".
ResolvePath(folder, all_folders) == _get_folder_path(folder, all_folders, <<>>, 1)

(***************************************************************************)
(* Name sanitisation: FileService._sanitize_filename.                      *)
(***************************************************************************)
InvalidChars == {"<", ">", ":", "\"", "/", "\\", "|", "?", "*"}
Whitespace == {" ", "\t", "\n", "\r"}

\* filename.replace(char, '_') for every char of invalid_chars.
ReplaceInvalid(s) == [i \in 1..Len(s) |-> IF s[i] \in InvalidChars THEN "_" ELSE s[i]]

\* str.strip(): drop leading and trailing whitespace.
Strip(s) ==
    LET keep == {i \in 1..Len(s) : s[i] \notin Whitespace}
    IN  IF keep = {} THEN <<>>
        ELSE LET lo == CHOOSE i \in keep : \A j \in keep : i <= j
                 hi == CHOOSE i \in keep : \A j \in keep : j <= i
             IN  SubSeq(s, lo, hi)

\* for char in invalid_chars: replace; return filename.strip()
_sanitize_filenameWithoutStrip(filename) == ReplaceInvalid(filename)

_sanitize_filename(filename) == Strip(ReplaceInvalid(filename))

\* The notebook_name argument: None or a str.
NoName == [kind |-> "none", val |-> <<>>]
Name(s) == [kind |-> "str", val |-> s]

\* f"{self._sanitize_filename(notebook_name or 'notebook')}/"
BaseFolderDefaultForNoneOnly(name) ==
    _sanitize_filename(IF name.kind = "none"
                       THEN <<"n", "o", "t", "e", "b", "o", "o", "k">>
                       ELSE name.val) \o Slash

BaseFolder(name) ==
    _sanitize_filename(IF name.kind = "none" \/ name.val = <<>>
                       THEN <<"n", "o", "t", "e", "b", "o", "o", "k">>
                       ELSE name.val) \o Slash

(***************************************************************************)
(* Content: str.encode('utf-8') and FileService.get_file_bytes_from_s3.    *)
(***************************************************************************)
IsSurrogate(cp) == cp >= 55296 /\ cp <= 57343

Utf8OfCodePoint(cp) ==
    IF cp < 128 THEN <<cp>>
    ELSE IF cp < 2048 THEN <<192 + (cp \div 64), 128 + (cp % 64)>>
    ELSE IF cp < 65536
         THEN <<224 + (cp \div 4096), 128 + ((cp \div 64) % 64), 128 + (cp % 64)>>
         ELSE <<240 + (cp \div 262144), 128 + ((cp \div 4096) % 64),
                128 + ((cp \div 64) % 64), 128 + (cp % 64)>>

RECURSIVE Utf8Bytes(_)
Utf8Bytes(cps) ==
    IF cps = <<>> THEN <<>> ELSE Utf8OfCodePoint(Head(cps)) \o Utf8Bytes(Tail(cps))

\* text.encode('utf-8'): the bytes, or UnicodeEncodeError on a lone surrogate.
Utf8Encode(cps) ==
    IF \E i \in 1..Len(cps) : IsSurrogate(cps[i])
    THEN [raised |-> TRUE, data |-> <<>>]
    ELSE [raised |-> FALSE, data |-> Utf8Bytes(cps)]

\* Objects of the bucket by key; a key outside the domain has no object.
Bucket == [k \in {"k1"} |-> <<80, 75>>]

\* No key: file.unique_filename is None.
NoKey == "none"

\* What s3_client.get_object(Key=key) followed by Body.read() can do: return
\* the object's bytes, or raise (no such key, or the store cannot be reached).
GetObjectOutcomes(key) ==
    {[ok |-> FALSE, body |-> <<>>]}
        \cup (IF key \in DOMAIN Bucket THEN {[ok |-> TRUE, body |-> Bucket[key]]} ELSE {})

\* get_file_bytes_from_s3(unique_filename) when get_object behaves as `outcome`:
\* the bytes returned and the get_object calls made.
get_file_bytes_from_s3(client, unique_filename, outcome) ==
    IF ~client
    THEN [data |-> <<>>, gets |-> <<>>]
    ELSE [data |-> IF outcome.ok THEN outcome.body ELSE <<>>,
          gets |-> <<[key |-> unique_filename, ok |-> outcome.ok, body |-> outcome.body]>>]

(***************************************************************************)
(* Inputs.                                                                 *)
(***************************************************************************)
FolderLetters == <<"a", "b", "c", "d", "e">>

\* A parent_id of a folder among n folders: None, the id of one of them, or
\* an id (n + 1) no folder has; identifiers are held as `kind`.
ParentIds(n, kind) == {NoneId} \cup {[kind |-> kind, val |-> k] : k \in 1..(n + 1)}

\* The list of n folders with ids 1..n in which folder i is named with
\* letter i (with the empty string when named[i] is FALSE) and has the
\* parent_id par[i].
FolderList(n, named, par) ==
    [i \in 1..n |-> [id |-> Uuid(i),
                     name |-> IF named[i] THEN <<FolderLetters[i]>> ELSE <<>>,
                     parent_id |-> par[i]]]

\* Initial values of the variables of the export.
ExportIdle ==
    /\ files = <<>>
    /\ zipf = <<>>
    /\ idx = 0
    /\ s3_gets = <<>>
    /\ skipped = {}
    /\ error = ""
    /\ calls = {}

\* The variables of the export where no export runs; `at` names what runs.
ExportUnused(at) ==
    /\ s3_client = FALSE
    /\ folder_repo = FALSE
    /\ notebook_name = [kind |-> "none", val |-> <<>>]
    /\ pc = at
    /\ ExportIdle
    /\ folders = <<>>
    /\ resolved = <<>>

(***************************************************************************)
(* The resolver on its own: _get_folder_path applied to each folder of a   *)
(* folder list in turn.                                                    *)
(***************************************************************************)
InitPath ==
    /\ s3_client = FALSE
    /\ folder_repo = TRUE
    /\ notebook_name = NoName
    /\ \E n \in 0..MaxPathFolders : \E kind \in {"uuid", "str"} :
          \E named \in [1..n -> BOOLEAN] : \E par \in [1..n -> ParentIds(n, kind)] :
             folders = FolderList(n, named, par)
    /\ pc = "resolve"
    /\ ExportIdle
    /\ resolved = <<>>
    /\ OutsideExportIdle

Resolve ==
    /\ pc = "resolve"
    /\ Len(resolved) < Len(folders)
    /\ resolved' = Append(resolved, ResolvePath(folders[Len(resolved) + 1], folders))
    /\ UNCHANGED <<s3_client, folder_repo, notebook_name, pc, files, folders, zipf,
                   idx, s3_gets, skipped, error, calls, outsideExport>>

NextPath == Resolve

SpecPath == InitPath /\ [][NextPath]_vars

(***************************************************************************)
(* Vocabulary of the properties of the resolver.                           *)
(***************************************************************************)
\* Index of the folder that fs[i].parent_id names by its text, 0 when the
\* parent_id is unset or names no folder of fs.
ParentIndex(fs, i) ==
    LET m == {j \in 1..Len(fs) :
                 fs[i].parent_id.kind # "none" /\ fs[j].id.val = fs[i].parent_id.val}
    IN  IF m = {} THEN 0 ELSE CHOOSE j \in m : TRUE

\* The parent chain of fs[i] ends at a folder without resolvable parent
\* within `fuel` hops.
RECURSIVE ReachesRoot(_, _, _)
ReachesRoot(fs, i, fuel) ==
    IF i = 0 THEN TRUE
    ELSE IF fuel = 0 THEN FALSE
    ELSE ReachesRoot(fs, ParentIndex(fs, i), fuel - 1)

AcyclicFolders(fs) == \A i \in 1..Len(fs) : ReachesRoot(fs, i, Len(fs))

\* C1: in an acyclic folder set, the path of a folder F whose parent_id
\* string-equals the id of a folder P is the path of P, "/", and F.name.
C1_PathExtendsParentPath ==
    \A i, j \in 1..Len(resolved) :
        (AcyclicFolders(folders) /\ ParentIndex(folders, i) = j)
            => /\ ~resolved[i].raised
               /\ ~resolved[j].raised
               /\ resolved[i].path = resolved[j].path \o Slash \o folders[i].name

\* C2: a folder whose parent_id is unset, or set but matching no folder id
\* of the set, resolves to exactly its own name and nothing is raised.
C2_NoParentResolvesToName ==
    \A i \in 1..Len(resolved) :
        ParentIndex(folders, i) = 0 => resolved[i] = Returned(folders[i].name)

\* A folder with a dangling parent_id and one with none have been resolved.
C2_Witness ==
    /\ \E i \in 1..Len(resolved) :
          /\ Truthy(folders[i].parent_id)
          /\ ParentIndex(folders, i) = 0
          /\ folders[i].name # <<>>
          /\ resolved[i] = Returned(folders[i].name)
    /\ \E i \in 1..Len(resolved) :
          /\ ~Truthy(folders[i].parent_id)
          /\ resolved[i] = Returned(folders[i].name)

\* C3: for folders A and B that are each other's parent, the resolver called
\* on A or B returns a fallback path instead of recursing without bound.
C3_CycleReturnsFallback ==
    \A i, j \in 1..Len(resolved) :
        (ParentIndex(folders, i) = j /\ ParentIndex(folders, j) = i /\ i # j)
            => ~resolved[i].raised /\ ~resolved[j].raised

(***************************************************************************)
(* The sanitiser on its own: _sanitize_filename applied to a name and then *)
(* to its own result.                                                      *)
(***************************************************************************)
\* The characters of the names: every invalid character, whitespace, and
\* characters the sanitiser leaves alone.
NameChars == InvalidChars \cup {" ", "\t", "a", "_"}

InitSanitize ==
    /\ ExportUnused("sanitize")
    /\ \E n \in 0..MaxNameLen : \E s \in [1..n -> NameChars] : sanitize_arg = s
    /\ sanitized = <<>>
    /\ NotebookIdle
    /\ BudgetIdle
    /\ CreateIdle
    /\ OwnerIdle

Sanitize ==
    /\ pc = "sanitize"
    /\ Len(sanitized) < 2
    /\ sanitized' = Append(sanitized,
                           _sanitize_filename(IF sanitized = <<>> THEN sanitize_arg
                                              ELSE sanitized[Len(sanitized)]))
    /\ UNCHANGED <<sanitize_arg, outsideSanitize>>

NextSanitize == Sanitize

SpecSanitize == InitSanitize /\ [][NextSanitize]_vars

\* C11: sanitising a sanitised name changes nothing, and a sanitised name
\* holds none of the characters < > : " / \ | ? * and neither starts nor ends
\* with whitespace.
C11_SanitizeIdempotentAndClean ==
    /\ \A k \in 1..Len(sanitized) :
          LET out == sanitized[k]
          IN  /\ \A i \in 1..Len(out) : out[i] \notin InvalidChars
              /\ out # <<>> => out[1] \notin Whitespace /\ out[Len(out)] \notin Whitespace
    /\ Len(sanitized) = 2 => sanitized[2] = sanitized[1]

\* A name with leading whitespace and an invalid character has been sanitised
\* twice.
C11_Witness ==
    /\ Len(sanitized) = 2
    /\ sanitize_arg = <<" ", "a", "?">>
    /\ sanitized[1] = <<"a", "_">>

(***************************************************************************)
(* The export: FileService.export_notebook_as_zip.                         *)
(***************************************************************************)
\* Steps 1 and 2 of an iteration of the file loop: the bytes to archive (or
\* the exception raised on the way) and the get_object calls made, when
\* get_object behaves as `outcome`.
FileContentFetchRaises(file, client, outcome) ==
    IF ContentTruthy(file.content)
    THEN IF file.content.kind = "str"
         THEN LET e == Utf8Encode(file.content.val)
              IN  [raised |-> e.raised, data |-> e.data, gets |-> <<>>]
         ELSE [raised |-> FALSE, data |-> file.content.val, gets |-> <<>>]
    ELSE IF file.unique_filename # NoKey
         THEN LET r == get_file_bytes_from_s3(client, file.unique_filename, outcome)
              IN  [raised |-> ~client \/ ~outcome.ok, data |-> r.data, gets |-> r.gets]
         ELSE [raised |-> FALSE, data |-> <<>>, gets |-> <<>>]

FileContentBlobFirst(file, client, outcome) ==
    IF file.unique_filename # NoKey
    THEN LET r == get_file_bytes_from_s3(client, file.unique_filename, outcome)
         IN  [raised |-> FALSE, data |-> r.data, gets |-> r.gets]
    ELSE IF ContentTruthy(file.content)
         THEN IF file.content.kind = "str"
              THEN LET e == Utf8Encode(file.content.val)
                   IN  [raised |-> e.raised, data |-> e.data, gets |-> <<>>]
              ELSE [raised |-> FALSE, data |-> file.content.val, gets |-> <<>>]
         ELSE [raised |-> FALSE, data |-> <<>>, gets |-> <<>>]

FileContent(file, client, outcome) ==
    IF ContentTruthy(file.content)
    THEN IF file.content.kind = "str"
         THEN LET e == Utf8Encode(file.content.val)
              IN  [raised |-> e.raised, data |-> e.data, gets |-> <<>>]
         ELSE [raised |-> FALSE, data |-> file.content.val, gets |-> <<>>]
    ELSE IF file.unique_filename # NoKey
         THEN LET r == get_file_bytes_from_s3(client, file.unique_filename, outcome)
              IN  [raised |-> FALSE, data |-> r.data, gets |-> r.gets]
         ELSE [raised |-> FALSE, data |-> <<>>, gets |-> <<>>]

\* zip_path = f"{base_folder}{folder_path}/" of a folder's directory entry.
DirEntryPathNoSeparator(base_folder, folder_path) == base_folder \o folder_path

DirEntryPath(base_folder, folder_path) == base_folder \o folder_path \o Slash

\* "Determine the path within the ZIP": zip_path of a file, or the exception
\* raised by _get_folder_path.
ZipPath(file, all_folders, base_folder) ==
    LET f == IF Truthy(file.folder_id) THEN FindFolder(all_folders, file.folder_id) ELSE 0
    IN  IF f # 0
        THEN LET r == ResolvePath(all_folders[f], all_folders)
             IN  IF r.raised
                 THEN [raised |-> TRUE, path |-> <<>>]
                 ELSE [raised |-> FALSE,
                       path |-> base_folder \o r.path \o Slash \o file.filename]
        ELSE [raised |-> FALSE, path |-> base_folder \o file.filename]

\* The collaborator methods an iteration of the file loop calls, given the
\* get_object calls it made.
FetchCallsWithCommit(gets) ==
    (IF gets # <<>> THEN {"s3_client.get_object"} ELSE {}) \cup {"session.commit"}

FetchCalls(gets) == IF gets # <<>> THEN {"s3_client.get_object"} ELSE {}

\* get_object is called for a file only when it has no inline content, it has
\* a storage key and the client is configured.
NoFetch == [ok |-> FALSE, body |-> <<>>]
FetchOutcomes(file, client) ==
    IF ~ContentTruthy(file.content) /\ file.unique_filename # NoKey /\ client
    THEN GetObjectOutcomes(file.unique_filename)
    ELSE {NoFetch}

(***************************************************************************)
(* Inputs of the export.                                                   *)
(***************************************************************************)
\* file.content: None, "", "é", a lone surrogate, b"\xff".
Contents ==
    {NoContent, TextContent(<<>>), TextContent(<<233>>), TextContent(<<55296>>),
     BytesContent(<<255>>)}

\* file.unique_filename: None, the key of an object, a key without object.
Keys == {NoKey, "k1", "k2"}

\* file.folder_id in a notebook of up to n folders: None, or the str of the id of one of them
\* or of an id (n + 1) no folder has.
FolderRefs(n) == {NoneId} \cup {StrId(k) : k \in 1..(n + 1)}

FileNames == <<"x", "y", "z", "w">>

\* Every combination of content, storage key and folder_id of a file of a
\* notebook with n folders.
FileRecords(n) ==
    {[content |-> c, unique_filename |-> k, folder_id |-> d] :
        c \in Contents, k \in Keys, d \in FolderRefs(n)}

\* The files listed beside the one that varies: a blob-backed file of the
\* first folder, and a root file whose content cannot be encoded.
ContextFiles ==
    {[content |-> NoContent, unique_filename |-> "k1", folder_id |-> StrId(1)],
     [content |-> TextContent(<<55296>>), unique_filename |-> NoKey, folder_id |-> NoneId]}

\* The list of m files in which file `free` is r, the others are ctx[i], and
\* file i is named with letter i of FileNames.
FileList(m, free, r, ctx) ==
    [i \in 1..m |-> [filename |-> <<FileNames[i]>>,
                     content |-> (IF i = free THEN r ELSE ctx[i]).content,
                     unique_filename |-> (IF i = free THEN r ELSE ctx[i]).unique_filename,
                     folder_id |-> (IF i = free THEN r ELSE ctx[i]).folder_id]]

\* notebook_name of the export: " n:", which sanitises to "n_".
NotebookNames == {Name(<<" ", "n", ":">>)}

(***************************************************************************)
(* Actions of the export.                                                   *)
(***************************************************************************)
\* files = await self.repo.list_by_user_id(...): the repository returns up to
\* MaxFiles files, one of them any of FileRecords, the others ContextFiles.
ListFiles ==
    /\ pc = "start"
    /\ \E m \in 0..MaxFiles :
          IF m = 0
          THEN files' = <<>>
          ELSE \E free \in 1..m : \E r \in FileRecords(MaxFolders) :
                  \E ctx \in [1..m -> ContextFiles] :
                     files' = FileList(m, free, r, ctx)
    /\ pc' = "listed"
    /\ calls' = calls \cup {"repo.list_by_user_id"}
    /\ UNCHANGED <<s3_client, folder_repo, notebook_name, folders, zipf, idx, s3_gets,
                   skipped, error, resolved, outsideExport>>

\* Where the export stands once i of the files have been gone through: in the
\* loop, or past it, where zip_buffer.seek(0) and `return zip_buffer` follow
\* without suspension.
AfterFile(i, all_files) == IF i < Len(all_files) THEN "adding" ELSE "returned"

\* repo.list_by_user_id raises: nothing catches it.
ListFilesFails ==
    /\ pc = "start"
    /\ pc' = "raised"
    /\ error' = "ListingError"
    /\ calls' = calls \cup {"repo.list_by_user_id"}
    /\ UNCHANGED <<s3_client, folder_repo, notebook_name, files, folders, zipf, idx,
                   s3_gets, skipped, resolved, outsideExport>>

\* folders = await self.folder_repo.list_by_notebook(...) when a folder
\* repository is configured: it returns up to MaxFolders named folders with
\* UUID ids and any parent_ids.  Then the loop that writes one directory
\* entry per folder; a RecursionError of _get_folder_path leaves the export.
ListFolders ==
    /\ pc = "listed"
    /\ \E n \in 0..(IF folder_repo THEN MaxFolders ELSE 0) :
          \E par \in [1..n -> ParentIds(n, "uuid")] :
             folders' = FolderList(n, [i \in 1..n |-> TRUE], par)
    /\ LET bad == {i \in 1..Len(folders') : ResolvePath(folders'[i], folders').raised}
           done == IF bad = {} THEN Len(folders')
                   ELSE (CHOOSE i \in bad : \A j \in bad : i <= j) - 1
           base_folder == BaseFolder(notebook_name)
       IN  /\ zipf' = [i \in 1..done |->
                         [name |-> DirEntryPath(base_folder,
                                                ResolvePath(folders'[i], folders').path),
                          data |-> <<>>]]
           /\ pc' = IF bad # {} THEN "raised" ELSE AfterFile(0, files)
           /\ error' = IF bad = {} THEN "" ELSE "RecursionError"
    /\ calls' = calls \cup (IF folder_repo THEN {"folder_repo.list_by_notebook"} ELSE {})
    /\ UNCHANGED <<s3_client, folder_repo, notebook_name, files, idx, s3_gets,
                   skipped, resolved, outsideExport>>

\* folder_repo.list_by_notebook raises: nothing catches it.
ListFoldersFails ==
    /\ pc = "listed"
    /\ folder_repo
    /\ pc' = "raised"
    /\ error' = "ListingError"
    /\ calls' = calls \cup {"folder_repo.list_by_notebook"}
    /\ UNCHANGED <<s3_client, folder_repo, notebook_name, files, folders, zipf, idx,
                   s3_gets, skipped, resolved, outsideExport>>

AddFileWithoutExcept ==
    /\ pc = "adding"
    /\ idx < Len(files)
    /\ \E outcome \in FetchOutcomes(files[idx + 1], s3_client) :
          LET file == files[idx + 1]
              c == FileContent(file, s3_client, outcome)
              p == ZipPath(file, folders, BaseFolder(notebook_name))
          IN  /\ s3_gets' = s3_gets \o c.gets
              /\ calls' = calls \cup FetchCalls(c.gets)
              /\ IF c.raised \/ p.raised
                 THEN /\ skipped' = skipped \cup {idx + 1}
                      /\ zipf' = zipf
                      /\ pc' = "raised"
                      /\ error' = "FileError"
                 ELSE /\ skipped' = skipped
                      /\ zipf' = Append(zipf, [name |-> p.path, data |-> c.data])
                      /\ pc' = AfterFile(idx + 1, files)
                      /\ error' = error
    /\ idx' = idx + 1
    /\ UNCHANGED <<s3_client, folder_repo, notebook_name, files, folders, resolved,
                   outsideExport>>

\* One iteration of `for file in files`: the entry is written, or an
\* exception of the iteration is caught and the loop continues; after the
\* last file the archive is returned.
AddFile ==
    /\ pc = "adding"
    /\ idx < Len(files)
    /\ \E outcome \in FetchOutcomes(files[idx + 1], s3_client) :
          LET file == files[idx + 1]
              c == FileContent(file, s3_client, outcome)
              p == ZipPath(file, folders, BaseFolder(notebook_name))
          IN  /\ s3_gets' = s3_gets \o c.gets
              /\ calls' = calls \cup FetchCalls(c.gets)
              /\ IF c.raised \/ p.raised
                 THEN /\ skipped' = skipped \cup {idx + 1}
                      /\ zipf' = zipf
                 ELSE /\ skipped' = skipped
                      /\ zipf' = Append(zipf, [name |-> p.path, data |-> c.data])
    /\ idx' = idx + 1
    /\ pc' = AfterFile(idx + 1, files)
    /\ UNCHANGED <<s3_client, folder_repo, notebook_name, files, folders, error,
                   resolved, outsideExport>>

Init ==
    /\ s3_client \in BOOLEAN
    /\ folder_repo \in BOOLEAN
    /\ notebook_name \in NotebookNames
    /\ pc = "start"
    /\ ExportIdle
    /\ folders = <<>>
    /\ resolved = <<>>
    /\ OutsideExportIdle

Next ==
    \/ ListFiles
    \/ ListFilesFails
    \/ ListFolders
    \/ ListFoldersFails
    \/ AddFile

Spec == Init /\ [][Next]_vars

(***************************************************************************)
(* Vocabulary of the properties of the export.                             *)
(***************************************************************************)
\* Index in `folders` of the folder whose id string-equals file.folder_id,
\* 0 when the file has no folder_id or no folder of the set has that id.
FolderOf(file) ==
    LET m == {j \in 1..Len(folders) :
                 file.folder_id.kind # "none" /\ folders[j].id.val = file.folder_id.val}
    IN  IF m = {} THEN 0 ELSE CHOOSE j \in m : TRUE

\* The file carries non-empty inline content.
HasInline(file) == file.content.val # <<>>

\* Position in the archive of the entry of the i-th file: after the directory
\* entries and the entries of the files before it that were not skipped.
FileEntryIndex(i) == Len(folders) + Cardinality({j \in 1..i : j \notin skipped})

\* The i-th file makes a get_object call, and which call of the log it is.
Fetching(file) == ~HasInline(file) /\ file.unique_filename # NoKey /\ s3_client
GetIndex(i) == Cardinality({j \in 1..i : Fetching(files[j])})

\* <notebook>/<resolved-folder-path>/ and the place of the i-th file under it.
ExpectedDirPath(j) ==
    BaseFolder(notebook_name) \o ResolvePath(folders[j], folders).path \o Slash
ExpectedZipPath(i) ==
    IF FolderOf(files[i]) # 0
    THEN ExpectedDirPath(FolderOf(files[i])) \o files[i].filename
    ELSE BaseFolder(notebook_name) \o files[i].filename

\* The folder lists have been fetched and every directory entry written.
FoldersDone == pc \in {"adding", "returned"}

\* C4: once the listing calls have returned, the export returns an archive
\* and raises nothing, whatever the file and folder lists hold.
C4_ExportReturnsForAllListings ==
    pc = "raised" => error = "ListingError"

\* C5: when an iteration of the file loop raises, the file is skipped and the
\* export goes on: nothing is raised to the caller, and the archive holds the
\* directory entry of every folder and the entry of every other file.
C5_FailedFileIsSkipped ==
    skipped # {} =>
        /\ pc \in {"adding", "returned"}
        /\ error = ""
        /\ Len(zipf) = Len(folders) + idx - Cardinality(skipped)
        /\ \A j \in 1..Len(folders) : zipf[j].name = ExpectedDirPath(j)
        /\ \A i \in 1..idx :
              i \notin skipped => zipf[FileEntryIndex(i)].name = ExpectedZipPath(i)

\* An export returned after skipping a file that was followed by another.
C5_Witness ==
    /\ pc = "returned"
    /\ Len(folders) > 0
    /\ \E i \in skipped : \E j \in 1..Len(files) :
          /\ j > i
          /\ j \notin skipped
          /\ zipf[FileEntryIndex(j)].name = ExpectedZipPath(j)

\* C6: a file without inline content whose blob fetch fails is archived at
\* its normal path with zero-length content, and the export goes on.
C6_FailedFetchGivesEmptyEntry ==
    \A i \in 1..idx :
        (/\ ~HasInline(files[i])
         /\ files[i].unique_filename # NoKey
         /\ (s3_client => ~s3_gets[GetIndex(i)].ok))
            => /\ i \notin skipped
               /\ pc \in {"adding", "returned"}
               /\ zipf[FileEntryIndex(i)] = [name |-> ExpectedZipPath(i), data |-> <<>>]

\* An export returned with the entry of a file of a folder whose key has no
\* object in the bucket.
C6_Witness ==
    /\ pc = "returned"
    /\ s3_client
    /\ \E i \in 1..Len(files) :
          /\ files[i].content = NoContent
          /\ files[i].unique_filename = "k2"
          /\ FolderOf(files[i]) # 0
          /\ ~s3_gets[GetIndex(i)].ok
          /\ zipf[FileEntryIndex(i)].data = <<>>

\* C7: the bytes archived for a file are its inline content when that is
\* non-empty (text as UTF-8, bytes unchanged) and blob storage is then not
\* consulted; otherwise the bytes fetched by its storage key when it has
\* one; otherwise no bytes.
C7_ContentByFirstMatch ==
    /\ Len(s3_gets) = GetIndex(idx)
    /\ \A i \in 1..idx :
          Fetching(files[i]) => s3_gets[GetIndex(i)].key = files[i].unique_filename
    /\ \A i \in 1..idx :
          i \notin skipped =>
              zipf[FileEntryIndex(i)].data =
                  IF HasInline(files[i])
                  THEN IF files[i].content.kind = "str"
                       THEN Utf8Bytes(files[i].content.val)
                       ELSE files[i].content.val
                  ELSE IF Fetching(files[i]) /\ s3_gets[GetIndex(i)].ok
                       THEN Bucket[files[i].unique_filename]
                       ELSE <<>>

\* An export returned with an inline text of a file that also has a key and
\* with the fetched bytes of another file, after one get_object call.
C7_Witness ==
    /\ pc = "returned"
    /\ Len(s3_gets) = 1
    /\ \E i, j \in 1..Len(files) :
          /\ files[i].content = TextContent(<<233>>)
          /\ files[i].unique_filename = "k1"
          /\ zipf[FileEntryIndex(i)].data = <<195, 169>>
          /\ files[j].content = NoContent
          /\ zipf[FileEntryIndex(j)].data = <<80, 75>>

\* C8: a file is archived at <notebook>/<resolved-folder-path>/<filename>
\* when its folder_id string-equals the id of a fetched folder and at
\* <notebook>/<filename> otherwise; without per-file failure the archive has
\* exactly one file entry per listed file.
C8_FilePlacement ==
    /\ \A i \in 1..idx :
          i \notin skipped => zipf[FileEntryIndex(i)].name = ExpectedZipPath(i)
    /\ (pc = "returned" /\ skipped = {}) => Len(zipf) = Len(folders) + Len(files)

\* An export returned with one file in a nested folder and one in its parent.
C8_Witness ==
    /\ pc = "returned"
    /\ skipped = {}
    /\ Len(files) = 2
    /\ \E i, j \in 1..Len(files) :
          /\ zipf[FileEntryIndex(i)].name = <<"n", "_", "/", "a", "/", "b", "/">> \o files[i].filename
          /\ zipf[FileEntryIndex(j)].name = <<"n", "_", "/", "a", "/">> \o files[j].filename

\* C9: the archive has, for every fetched folder, a zero-byte entry named
\* <notebook>/<resolved-folder-path>/, whether or not a file belongs to it.
C9_DirectoryEntryPerFolder ==
    FoldersDone =>
        \A j \in 1..Len(folders) : zipf[j] = [name |-> ExpectedDirPath(j), data |-> <<>>]

\* An export returned with the entry of a nested folder that holds no file.
C9_Witness ==
    /\ pc = "returned"
    /\ Len(files) > 0
    /\ \E j \in 1..Len(folders) :
          /\ \A i \in 1..Len(files) : FolderOf(files[i]) # j
          /\ zipf[j] = [name |-> <<"n", "_", "/", "a", "/", "b", "/">>, data |-> <<>>]

\* The collaborator methods that only read persisted state.
ReadCalls == {"repo.list_by_user_id", "folder_repo.list_by_notebook", "s3_client.get_object"}

\* C13: on every path through the export (success, per-file failure, listing
\* failure) the only methods called on the repositories, the session and blob
\* storage are the two listings and get_object: no create, update, delete,
\* commit, upload or delete_object.
C13_ExportIsReadOnly ==
    calls \subseteq ReadCalls

\* An export returned after both listings, a blob fetch and a skipped file.
C13_Witness ==
    /\ pc = "returned"
    /\ skipped # {}
    /\ calls = ReadCalls

\* C10: a failure of either listing call leaves the export as an error, and
\* nothing else does.
C10_OnlyListingFailureAborts ==
    (pc = "raised") <=> (error = "ListingError")

(***************************************************************************)
(* The export called with an absent, an empty and a blank notebook name.   *)
(***************************************************************************)
\* notebook_name of the export: None, "" and " ".
DefaultedNames == {NoName, Name(<<>>), Name(<<" ">>)}

InitName ==
    /\ s3_client = FALSE
    /\ folder_repo = TRUE
    /\ notebook_name \in DefaultedNames
    /\ pc = "start"
    /\ ExportIdle
    /\ folders = <<>>
    /\ resolved = <<>>
    /\ OutsideExportIdle

SpecName == InitName /\ [][Next]_vars

\* The path starts with the segment "notebook/".
StartsWithNotebook(path) ==
    /\ Len(path) >= 9
    /\ SubSeq(path, 1, 9) = <<"n", "o", "t", "e", "b", "o", "o", "k", "/">>

\* C12: when the notebook name is None or empty, the path of every entry of
\* the archive starts with the top-level segment "notebook/".
C12_DefaultTopLevelName ==
    (notebook_name = NoName \/ notebook_name = Name(<<>>))
        => \A i \in 1..Len(zipf) : StartsWithNotebook(zipf[i].name)

\* An export with the empty name returned a directory entry and a file entry.
C12_Witness ==
    /\ pc = "returned"
    /\ notebook_name = Name(<<>>)
    /\ Len(folders) > 0
    /\ Len(zipf) > Len(folders)
    /\ \A i \in 1..Len(zipf) : StartsWithNotebook(zipf[i].name)

(***************************************************************************)
(* The export called with every kind of notebook name that could leave the *)
(* top-level directory without a name.                                     *)
(***************************************************************************)
\* notebook_name of the export: None, "", " ", " \t" and the invalid-only
\* names "?" and ":*".
TopLevelNames ==
    DefaultedNames \cup {Name(<<" ", "\t">>), Name(<<"?">>), Name(<<":", "*">>)}

InitTopLevel ==
    /\ s3_client = FALSE
    /\ folder_repo = TRUE
    /\ notebook_name \in TopLevelNames
    /\ pc = "start"
    /\ ExportIdle
    /\ folders = <<>>
    /\ resolved = <<>>
    /\ OutsideExportIdle

SpecTopLevel == InitTopLevel /\ [][Next]_vars

\* The text of the path before its first "/".
FirstSegment(path) ==
    LET slashes == {i \in 1..Len(path) : path[i] = "/"}
    IN  IF slashes = {} THEN path
        ELSE SubSeq(path, 1, (CHOOSE i \in slashes : \A j \in slashes : i <= j) - 1)

\* C21: whatever the notebook name is (None, empty, whitespace-only or made
\* only of invalid characters), the path of every entry of the archive begins
\* with a non-empty first segment.
C21_TopLevelNameNeverEmpty ==
    \A i \in 1..Len(zipf) : FirstSegment(zipf[i].name) # <<>>

(***************************************************************************)
(* Two invocations of export_notebook_as_zip interleaved at their awaits   *)
(* over one persisted notebook.  Each invocation has its own locals; the   *)
(* service attributes (repo, folder_repo, s3_client) are only read.        *)
(***************************************************************************)
Invocations == {1, 2}

\* The notebook_name argument of each invocation.
InvocationName(p) == IF p = 1 THEN Name(<<"n">>) ELSE Name(<<"m">>)

\* Locals of an invocation that has not started.
NewExport(p) ==
    [notebook_name |-> InvocationName(p), pc |-> "start", files |-> <<>>,
     folders |-> <<>>, zipf |-> <<>>, idx |-> 0]

\* get_object on the persisted bucket: the object's bytes, or a failure when
\* the key has no object.
StoredOutcome(file, client) ==
    IF ~ContentTruthy(file.content) /\ file.unique_filename # NoKey /\ client
    THEN IF file.unique_filename \in DOMAIN Bucket
         THEN [ok |-> TRUE, body |-> Bucket[file.unique_filename]]
         ELSE [ok |-> FALSE, body |-> <<>>]
    ELSE NoFetch

\* The entry one iteration of the file loop writes: <<entry>>, or <<>> when
\* the iteration raises and the file is skipped.
FileEntry(file, all_folders, base_folder, client) ==
    LET c == FileContent(file, client, StoredOutcome(file, client))
        p == ZipPath(file, all_folders, base_folder)
    IN  IF c.raised \/ p.raised THEN <<>> ELSE <<[name |-> p.path, data |-> c.data]>>

\* The directory entries of the folder loop, or RecursionError out of it.
DirEntries(all_folders, base_folder) ==
    IF \E i \in 1..Len(all_folders) : ResolvePath(all_folders[i], all_folders).raised
    THEN [raised |-> TRUE, entries |-> <<>>]
    ELSE [raised |-> FALSE,
          entries |-> [i \in 1..Len(all_folders) |->
                          [name |-> DirEntryPath(base_folder,
                                                 ResolvePath(all_folders[i], all_folders).path),
                           data |-> <<>>]]]

\* The buffer an invocation writes its entries to: zip_buffer = BytesIO() is a
\* local of the invocation.
ZipBufferShared(p) == 1

ZipBufferOf(p) == p

\* files = await self.repo.list_by_user_id(...)
ListFilesOf(p) ==
    /\ exports[p].pc = "start"
    /\ exports' = [exports EXCEPT ![p].files = db_files, ![p].pc = "listed"]
    /\ UNCHANGED <<db_files, db_folders, db_history, outsideNotebook>>

\* folders = await self.folder_repo.list_by_notebook(...), then the folder loop.
ListFoldersOf(p) ==
    /\ exports[p].pc = "listed"
    /\ LET all_folders == IF folder_repo THEN db_folders ELSE <<>>
           d == DirEntries(all_folders, BaseFolder(exports[p].notebook_name))
           b == ZipBufferOf(p)
           e == [exports EXCEPT ![p].folders = all_folders,
                                ![p].pc = IF d.raised THEN "raised"
                                          ELSE AfterFile(0, exports[p].files)]
       IN  exports' = [e EXCEPT ![b].zipf = @ \o d.entries]
    /\ UNCHANGED <<db_files, db_folders, db_history, outsideNotebook>>

\* One iteration of `for file in files`; the await of the blob fetch inside it
\* leaves the locals of every invocation as they are.
AddFileOf(p) ==
    /\ exports[p].pc = "adding"
    /\ LET x == exports[p]
           b == ZipBufferOf(p)
           entry == FileEntry(x.files[x.idx + 1], x.folders, BaseFolder(x.notebook_name),
                              s3_client)
           e == [exports EXCEPT ![p].idx = x.idx + 1,
                                ![p].pc = AfterFile(x.idx + 1, x.files)]
       IN  exports' = [e EXCEPT ![b].zipf = @ \o entry]
    /\ UNCHANGED <<db_files, db_folders, db_history, outsideNotebook>>


\* The File rows a persisted notebook is made of: a blob-backed file of the
\* first folder, a root file whose content cannot be encoded, and a root file
\* with inline text.
NotebookFiles ==
    ContextFiles \cup
        {[content |-> TextContent(<<233>>), unique_filename |-> NoKey, folder_id |-> NoneId]}

\* The persisted notebook: up to MaxFiles files and up to MaxFolders folders.
InitNotebook ==
    /\ \E m \in 0..MaxFiles : \E ctx \in [1..m -> NotebookFiles] :
          db_files = FileList(m, 0, CHOOSE f \in NotebookFiles : TRUE, ctx)
    /\ \E n \in 0..MaxFolders : \E par \in [1..n -> ParentIds(n, "uuid")] :
          db_folders = FolderList(n, [i \in 1..n |-> TRUE], par)

InitTwo ==
    /\ s3_client \in BOOLEAN
    /\ folder_repo = TRUE
    /\ notebook_name = NoName
    /\ pc = "concurrent"
    /\ ExportIdle
    /\ folders = <<>>
    /\ resolved = <<>>
    /\ SanitizeIdle
    /\ BudgetIdle
    /\ CreateIdle
    /\ OwnerIdle
    /\ InitNotebook
    /\ db_history = {<<db_files, db_folders>>}
    /\ exports = [p \in Invocations |-> NewExport(p)]

NextTwo ==
    \E p \in Invocations :
        \/ ListFilesOf(p)
        \/ ListFoldersOf(p)
        \/ AddFileOf(p)

SpecTwo == InitTwo /\ [][NextTwo]_vars

\* The entries of the first k files of a list, in order.
RECURSIVE FileEntries(_, _, _, _)
FileEntries(all_files, all_folders, base_folder, k) ==
    IF k = 0 THEN <<>>
    ELSE FileEntries(all_files, all_folders, base_folder, k - 1)
             \o FileEntry(all_files[k], all_folders, base_folder, s3_client)

\* What an export called with `name` does when it runs alone on the persisted
\* notebook: the archive it returns, or the error it raises.
ExportAlone(name) ==
    LET all_folders == IF folder_repo THEN db_folders ELSE <<>>
        d == DirEntries(all_folders, BaseFolder(name))
    IN  IF d.raised
        THEN [raised |-> TRUE, zipf |-> <<>>]
        ELSE [raised |-> FALSE,
              zipf |-> d.entries \o FileEntries(db_files, all_folders, BaseFolder(name),
                                                Len(db_files))]

\* C14: of two exports interleaved at their awaits, each returns exactly the
\* archive it returns when it runs alone on the same persisted notebook (and
\* raises only when it raises alone), whatever the interleaving.
C14_InterleavedExportsAreIndependent ==
    \A p \in Invocations :
        /\ exports[p].pc = "returned" =>
              /\ ~ExportAlone(exports[p].notebook_name).raised
              /\ exports[p].zipf = ExportAlone(exports[p].notebook_name).zipf
        /\ exports[p].pc = "raised" => ExportAlone(exports[p].notebook_name).raised

\* The second export returned its archive of two entries or more while the
\* first one was in the middle of its file loop.
C14_Witness ==
    /\ exports[1].pc = "adding"
    /\ exports[1].idx = 1
    /\ Len(exports[1].zipf) >= 2
    /\ exports[2].pc = "returned"
    /\ Len(exports[2].zipf) >= 3
    /\ exports[2].zipf = ExportAlone(exports[2].notebook_name).zipf

(***************************************************************************)
(* One export while other requests write to the notebook between its       *)
(* awaits.                                                                 *)
(***************************************************************************)
\* The File rows of the notebook: files with inline text, in the first folder
\* or at the root.
SnapshotFiles ==
    {[content |-> TextContent(<<233>>), unique_filename |-> NoKey, folder_id |-> d] :
        d \in {NoneId, StrId(1)}}

\* Another request may write while the history is short of MaxWrites writes.
MayWrite == Cardinality(db_history) <= MaxWrites

\* The history after a write.
Written(new_files, new_folders) == db_history \cup {<<new_files, new_folders>>}

\* The sequence without its i-th element.
Without(seq, i) == SubSeq(seq, 1, i - 1) \o SubSeq(seq, i + 1, Len(seq))

\* Another request moves a file: update_file with updates = {"folder_id": ...},
\* to the root or to a folder of the notebook.
MoveFile ==
    /\ MayWrite
    /\ \E i \in 1..Len(db_files) :
          \E d \in {NoneId} \cup {StrId(db_folders[j].id.val) : j \in 1..Len(db_folders)} :
             /\ d # db_files[i].folder_id
             /\ db_files' = [db_files EXCEPT ![i].folder_id = d]
    /\ db_history' = Written(db_files', db_folders)
    /\ UNCHANGED <<db_folders, exports, outsideNotebook>>

\* Another request deletes a file: delete_file.
DeleteFile ==
    /\ MayWrite
    /\ \E i \in 1..Len(db_files) : db_files' = Without(db_files, i)
    /\ db_history' = Written(db_files', db_folders)
    /\ UNCHANGED <<db_folders, exports, outsideNotebook>>

\* Another request creates a root folder, with an id no folder has.
CreateFolder ==
    /\ MayWrite
    /\ Len(db_folders) < MaxFolders
    /\ LET used == {db_folders[j].id.val : j \in 1..Len(db_folders)}
           id == CHOOSE k \in 1..MaxFolders : k \notin used
       IN  db_folders' = Append(db_folders, [id |-> Uuid(id),
                                             name |-> <<FolderLetters[id]>>,
                                             parent_id |-> NoneId])
    /\ db_history' = Written(db_files, db_folders')
    /\ UNCHANGED <<db_files, exports, outsideNotebook>>

\* Another request deletes a folder that holds no file and no folder.
DeleteFolder ==
    /\ MayWrite
    /\ \E j \in 1..Len(db_folders) :
          /\ \A i \in 1..Len(db_files) :
                Str(db_files[i].folder_id) # Str(db_folders[j].id)
          /\ \A k \in 1..Len(db_folders) :
                Str(db_folders[k].parent_id) # Str(db_folders[j].id)
          /\ db_folders' = Without(db_folders, j)
    /\ db_history' = Written(db_files, db_folders')
    /\ UNCHANGED <<db_files, exports, outsideNotebook>>

InitSnapshot ==
    /\ s3_client = FALSE
    /\ folder_repo = TRUE
    /\ notebook_name = NoName
    /\ pc = "snapshot"
    /\ ExportIdle
    /\ folders = <<>>
    /\ resolved = <<>>
    /\ SanitizeIdle
    /\ BudgetIdle
    /\ CreateIdle
    /\ OwnerIdle
    /\ \E m \in 0..MaxFiles : \E ctx \in [1..m -> SnapshotFiles] :
          db_files = FileList(m, 0, CHOOSE f \in SnapshotFiles : TRUE, ctx)
    /\ \E n \in 0..MaxFolders : \E par \in [1..n -> ParentIds(n, "uuid")] :
          db_folders = FolderList(n, [i \in 1..n |-> TRUE], par)
    /\ db_history = {<<db_files, db_folders>>}
    /\ exports = [p \in {1} |-> NewExport(p)]

NextSnapshot ==
    \/ ListFilesOf(1)
    \/ ListFoldersOf(1)
    \/ AddFileOf(1)
    \/ MoveFile
    \/ DeleteFile
    \/ CreateFolder
    \/ DeleteFolder

SpecSnapshot == InitSnapshot /\ [][NextSnapshot]_vars

\* C19: the file list and the folder list an export works with are those of
\* the notebook at one point in time of its run.
C19_ExportUsesOneSnapshot ==
    exports[1].pc \in {"adding", "returned"}
        => <<exports[1].files, exports[1].folders>> \in db_history

(***************************************************************************)
(* LiteLLMService.top_up_user_budget: two calls for one key against the    *)
(* proxy.  Amounts are whole units of money.                               *)
(***************************************************************************)
\* A value that may be None.
None == [set |-> FALSE, val |-> 0]
Some(v) == [set |-> TRUE, val |-> v]

Callers == {1, 2}

\* What an HTTP request does: a 2xx response, a response with an error
\* status, or an exception of requests (connection refused, timeout).
HttpOutcomes == {"ok", "error_status", "raises"}

\* Locals of a call that has not started.
NewTopUp(amount) ==
    [pc |-> "info", amount_to_add |-> amount, current_max_budget |-> 0,
     new_budget |-> 0, info |-> "none", update |-> "none", returned |-> None]

\* key_info.get("max_budget") or 0.0
CurrentMaxBudget(stored) == IF stored.set THEN stored.val ELSE 0

\* requests.get(info_url, ...), raise_for_status(), and the new total.
GetInfo(p) ==
    /\ topups[p].pc = "info"
    /\ \E outcome \in HttpOutcomes :
          topups' = [topups EXCEPT ![p] =
              IF outcome = "ok"
              THEN [@ EXCEPT !.pc = "update",
                             !.info = "ok",
                             !.current_max_budget = CurrentMaxBudget(max_budget),
                             !.new_budget = CurrentMaxBudget(max_budget)
                                             + topups[p].amount_to_add]
              ELSE [@ EXCEPT !.pc = "done", !.info = outcome, !.returned = None]]
    /\ UNCHANGED <<max_budget, budget_before, outsideBudget>>

\* requests.post(update_url, ...) without raise_for_status(), then
\* `return new_budget`; an exception of requests returns None.
PostUpdate(p) ==
    /\ topups[p].pc = "update"
    /\ \E outcome \in HttpOutcomes :
          /\ topups' = [topups EXCEPT ![p] =
                [@ EXCEPT !.pc = "done",
                          !.update = outcome,
                          !.returned = IF outcome = "raises" THEN None
                                       ELSE Some(topups[p].new_budget)]]
          /\ max_budget' = IF outcome = "ok" THEN Some(topups[p].new_budget)
                           ELSE max_budget
    /\ UNCHANGED <<budget_before, outsideBudget>>

InitTopUp ==
    /\ ExportUnused("top_up")
    /\ SanitizeIdle
    /\ NotebookIdle
    /\ CreateIdle
    /\ OwnerIdle
    /\ max_budget \in {None} \cup {Some(v) : v \in 0..MaxStoredBudget}
    /\ budget_before = max_budget
    /\ topups \in [Callers -> {NewTopUp(a) : a \in 1..MaxAmount}]

NextTopUp ==
    \E p \in Callers :
        \/ GetInfo(p)
        \/ PostUpdate(p)

SpecTopUp == InitTopUp /\ [][NextTopUp]_vars

\* C15: a call returns a value v only when its update of the proxy took
\* effect, with v the max_budget it read (0 when unset) plus amount_to_add;
\* when the info request or the update request fails it returns None.
C15_TopUpReturnsAppliedBudget ==
    \A p \in Callers :
        topups[p].pc = "done" =>
            /\ topups[p].returned.set =>
                  /\ topups[p].update = "ok"
                  /\ topups[p].returned.val =
                        topups[p].current_max_budget + topups[p].amount_to_add
            /\ (topups[p].info # "ok" \/ topups[p].update # "ok") =>
                  ~topups[p].returned.set

\* C18: when two calls adding a and b both return a value, after updates
\* that both took effect, the proxy holds the max_budget it held before the
\* calls (0 when unset) plus a plus b.
C18_ConcurrentTopUpsAreNotLost ==
    (\A p \in Callers :
        /\ topups[p].pc = "done"
        /\ topups[p].update = "ok"
        /\ topups[p].returned.set)
        => max_budget = Some(CurrentMaxBudget(budget_before)
                                + topups[1].amount_to_add + topups[2].amount_to_add)

(***************************************************************************)
(* NotebookService.create_notebook and the content creation template       *)
(* (NotebookTemplateService.apply_content_creation_template).              *)
(***************************************************************************)
NotebookRecord == "notebook"
\* root_files of _create_root_level_files.
RootFiles == <<"tasks.md", "voiceover.md">>
ResourcesFolder == "Resources"
LinksFile == "links.md"
\* Titles of the tasks of _get_template_tasks.
TemplateTasks ==
    <<"Initial Brainstorming", "Market Research", "Create Outline", "Write First Draft",
      "Self Review", "Setup Notebook">>

\* Every item of the template.
TemplateItems ==
    {RootFiles[i] : i \in 1..Len(RootFiles)} \cup {ResourcesFolder, LinksFile}
        \cup {TemplateTasks[i] : i \in 1..Len(TemplateTasks)}

\* FileService.create_file_record: repo.create, session.commit (which commits
\* everything the session holds) and session.refresh; `outcome` says whether
\* the call returns, raises before the commit took effect, or raises in the
\* refresh after it.
create_file_record(item, outcome) ==
    IF outcome = "raises"
    THEN [pending |-> pending, committed |-> committed, raised |-> TRUE]
    ELSE [pending |-> {}, committed |-> committed \cup pending \cup {item},
          raised |-> outcome = "refresh_raises"]

FileRecordOutcomes == {"ok", "raises", "refresh_raises"}

\* folder_service.create_folder and task_service.create_task as the template
\* calls them: the object is added to the session, or added and committed, or
\* the call raises; create_folder may also return None.
ServiceOutcomes == {"added", "committed", "raises"}

create_in_service(item, outcome) ==
    IF outcome = "raises"
    THEN [pending |-> pending, committed |-> committed, raised |-> TRUE]
    ELSE IF outcome = "committed"
    THEN [pending |-> {}, committed |-> committed \cup pending \cup {item},
          raised |-> FALSE]
    ELSE [pending |-> pending \cup {item}, committed |-> committed, raised |-> FALSE]

\* How create_notebook ends when apply_content_creation_template raises: the
\* except branch prints, and `return notebook` follows.
TemplateErrorReraised == "raised"

TemplateErrorResult == "returned"

\* The exception of a template step reaches the except branch of create_notebook.
TemplateRaises ==
    /\ nb_pc' = "done"
    /\ nb_i' = 0
    /\ template_error' = TRUE
    /\ nb_result' = TemplateErrorResult

\* notebook = await self.repo.create(...)
CreateNotebookRecord ==
    /\ nb_pc = "create"
    /\ \E ok \in BOOLEAN :
          IF ok
          THEN /\ pending' = pending \cup {NotebookRecord}
               /\ nb_pc' = "commit"
               /\ nb_result' = nb_result
          ELSE /\ pending' = pending
               /\ nb_pc' = "done"
               /\ nb_result' = "raised"
    /\ UNCHANGED <<template_service, nb_i, committed, template_error, outsideCreate>>

\* await self.session.commit(); await self.session.refresh(notebook); without
\* a template service `return notebook` follows.
CommitNotebook ==
    /\ nb_pc = "commit"
    /\ \E ok \in BOOLEAN :
          IF ok
          THEN /\ committed' = committed \cup pending
               /\ pending' = {}
               /\ nb_pc' = IF template_service THEN "root_files" ELSE "done"
               /\ nb_result' = IF template_service THEN nb_result ELSE "returned"
          ELSE /\ committed' = committed
               /\ pending' = pending
               /\ nb_pc' = "done"
               /\ nb_result' = "raised"
    /\ UNCHANGED <<template_service, nb_i, template_error, outsideCreate>>

\* One iteration of `for filename in root_files`.
CreateRootFile ==
    /\ nb_pc = "root_files"
    /\ \E outcome \in FileRecordOutcomes :
          LET r == create_file_record(RootFiles[nb_i + 1], outcome)
          IN  /\ pending' = r.pending
              /\ committed' = r.committed
              /\ IF r.raised
                 THEN TemplateRaises
                 ELSE /\ nb_i' = IF nb_i + 1 < Len(RootFiles) THEN nb_i + 1 ELSE 0
                      /\ nb_pc' = IF nb_i + 1 < Len(RootFiles) THEN "root_files" ELSE "folder"
                      /\ UNCHANGED <<template_error, nb_result>>
    /\ UNCHANGED <<template_service, outsideCreate>>

\* folder = await self.folder_service.create_folder(...); session.flush();
\* `if not folder or not folder.id: return` leaves out links.md.
CreateResourcesFolder ==
    /\ nb_pc = "folder"
    /\ \/ \E outcome \in ServiceOutcomes :
             LET r == create_in_service(ResourcesFolder, outcome)
             IN  /\ pending' = r.pending
                 /\ committed' = r.committed
                 /\ IF r.raised
                    THEN TemplateRaises
                    ELSE /\ nb_pc' = "links"
                         /\ UNCHANGED <<nb_i, template_error, nb_result>>
       \/ /\ nb_pc' = "tasks"
          /\ UNCHANGED <<nb_i, pending, committed, template_error, nb_result>>
    /\ UNCHANGED <<template_service, outsideCreate>>

\* create_file_record for links.md with folder_id=str(folder.id).
CreateLinksFile ==
    /\ nb_pc = "links"
    /\ \E outcome \in FileRecordOutcomes :
          LET r == create_file_record(LinksFile, outcome)
          IN  /\ pending' = r.pending
              /\ committed' = r.committed
              /\ IF r.raised
                 THEN TemplateRaises
                 ELSE /\ nb_pc' = "tasks"
                      /\ UNCHANGED <<nb_i, template_error, nb_result>>
    /\ UNCHANGED <<template_service, outsideCreate>>

\* One iteration of `for task_def in task_definitions`.
CreateTemplateTask ==
    /\ nb_pc = "tasks"
    /\ \E outcome \in ServiceOutcomes :
          LET r == create_in_service(TemplateTasks[nb_i + 1], outcome)
          IN  /\ pending' = r.pending
              /\ committed' = r.committed
              /\ IF r.raised
                 THEN TemplateRaises
                 ELSE /\ nb_i' = IF nb_i + 1 < Len(TemplateTasks) THEN nb_i + 1 ELSE 0
                      /\ nb_pc' = IF nb_i + 1 < Len(TemplateTasks) THEN "tasks"
                                  ELSE "template_commit"
                      /\ UNCHANGED <<template_error, nb_result>>
    /\ UNCHANGED <<template_service, outsideCreate>>

\* session.flush() of the template, then `await self.session.commit()` inside
\* the try of create_notebook, and `return notebook`.
CommitTemplate ==
    /\ nb_pc = "template_commit"
    /\ \E ok \in BOOLEAN :
          IF ok
          THEN /\ committed' = committed \cup pending
               /\ pending' = {}
               /\ nb_pc' = "done"
               /\ nb_result' = "returned"
               /\ UNCHANGED <<nb_i, template_error>>
          ELSE /\ UNCHANGED <<committed, pending>>
               /\ TemplateRaises
    /\ UNCHANGED <<template_service, outsideCreate>>

InitCreate ==
    /\ ExportUnused("create_notebook")
    /\ SanitizeIdle
    /\ NotebookIdle
    /\ BudgetIdle
    /\ OwnerIdle
    /\ template_service \in BOOLEAN
    /\ nb_pc = "create"
    /\ nb_i = 0
    /\ pending = {}
    /\ committed = {}
    /\ template_error = FALSE
    /\ nb_result = ""

NextCreate ==
    \/ CreateNotebookRecord
    \/ CommitNotebook
    \/ CreateRootFile
    \/ CreateResourcesFolder
    \/ CreateLinksFile
    \/ CreateTemplateTask
    \/ CommitTemplate

SpecCreate == InitCreate /\ [][NextCreate]_vars


\* The positions of create_notebook from the start of the template on.
TemplateStarted ==
    nb_pc \in {"root_files", "folder", "links", "tasks", "template_commit"} \/ template_error

\* C16: the notebook record is committed before the template is applied, and
\* when the template raises, create_notebook still returns the notebook, the
\* notebook stays committed and no error reaches the caller.
C16_TemplateFailureIsSwallowed ==
    /\ TemplateStarted => NotebookRecord \in committed
    /\ template_error =>
          /\ nb_pc = "done"
          /\ nb_result = "returned"
          /\ NotebookRecord \in committed

\* create_notebook returned after the template raised in its task loop.
C16_Witness ==
    /\ template_error
    /\ nb_result = "returned"
    /\ NotebookRecord \in committed
    /\ LinksFile \in committed
    /\ TemplateTasks[Len(TemplateTasks)] \notin committed \cup pending

\* C17: after create_notebook returns, the database holds every item of the
\* template or none of them.
C17_TemplateIsAllOrNothing ==
    nb_result = "returned" =>
        \/ TemplateItems \cap committed = {}
        \/ TemplateItems \subseteq committed

(***************************************************************************)
(* FileService.update_file and FileService.delete_file.                    *)
(***************************************************************************)
Users == {"u1", "u2"}

\* repo.get_by_id_and_user(file_id, user_id): the index of the row with that id
\* and that owner, 0 for None.
get_by_id_and_user(rows, file_id, user_id) ==
    LET m == {i \in 1..Len(rows) : rows[i].id = file_id /\ rows[i].user_id = user_id}
    IN  IF m = {} THEN 0 ELSE CHOOSE i \in m : TRUE

\* A lookup by id alone.
get_by_id(rows, file_id, user_id) ==
    LET m == {i \in 1..Len(rows) : rows[i].id = file_id}
    IN  IF m = {} THEN 0 ELSE CHOOSE i \in m : TRUE

\* The record of a call that started in the current state.
Called(op, user_id, file_id, result) ==
    [n |-> last_call.n + 1, op |-> op, user_id |-> user_id, file_id |-> file_id,
     result |-> result, rows_before |-> file_rows, keys_before |-> bucket_keys,
     commits_before |-> commits]

\* delete_file(user_id, file_id) once the lookup has returned row `found`
\* (0 for None); `s3_ok` says whether delete_object succeeds.
DeleteFileCall(user_id, file_id, found, s3_ok) ==
    IF found = 0
    THEN /\ last_call' = Called("delete_file", user_id, file_id, "False")
         /\ UNCHANGED <<file_rows, bucket_keys, commits>>
    ELSE /\ bucket_keys' = IF s3_client /\ file_rows[found].unique_filename # NoKey /\ s3_ok
                           THEN bucket_keys \ {file_rows[found].unique_filename}
                           ELSE bucket_keys
         /\ file_rows' = SelectSeq(file_rows, LAMBDA r : r.id # file_id)
         /\ commits' = commits + 1
         /\ last_call' = Called("delete_file", user_id, file_id, "True")

\* update_file(user_id, file_id, {"filename": new_name}) once the lookup has
\* returned row `found` (0 for None).
UpdateFileCall(user_id, file_id, found, new_name) ==
    IF found = 0
    THEN /\ last_call' = Called("update_file", user_id, file_id, "None")
         /\ UNCHANGED <<file_rows, bucket_keys, commits>>
    ELSE /\ file_rows' = [i \in 1..Len(file_rows) |->
                             IF file_rows[i].id = file_id
                             THEN [file_rows[i] EXCEPT !.filename = new_name]
                             ELSE file_rows[i]]
         /\ commits' = commits + 1
         /\ last_call' = Called("update_file", user_id, file_id, "File")
         /\ UNCHANGED bucket_keys

\* The ids a call may name: those of the rows and one no row has.
FileIds == 1..(MaxRows + 1)

delete_fileByIdAlone ==
    /\ last_call.n < MaxCalls
    /\ \E user_id \in Users : \E file_id \in FileIds : \E s3_ok \in BOOLEAN :
          DeleteFileCall(user_id, file_id, get_by_id(file_rows, file_id, user_id), s3_ok)
    /\ UNCHANGED outsideOwner

delete_file ==
    /\ last_call.n < MaxCalls
    /\ \E user_id \in Users : \E file_id \in FileIds : \E s3_ok \in BOOLEAN :
          DeleteFileCall(user_id, file_id,
                         get_by_id_and_user(file_rows, file_id, user_id), s3_ok)
    /\ UNCHANGED outsideOwner

update_file ==
    /\ last_call.n < MaxCalls
    /\ \E user_id \in Users : \E file_id \in FileIds :
          UpdateFileCall(user_id, file_id,
                         get_by_id_and_user(file_rows, file_id, user_id), <<"y">>)
    /\ UNCHANGED outsideOwner

InitOwner ==
    /\ s3_client \in BOOLEAN
    /\ folder_repo = FALSE
    /\ notebook_name = NoName
    /\ pc = "files"
    /\ ExportIdle
    /\ folders = <<>>
    /\ resolved = <<>>
    /\ SanitizeIdle
    /\ NotebookIdle
    /\ BudgetIdle
    /\ CreateIdle
    /\ \E n \in 0..MaxRows : \E owner \in [1..n -> Users] : \E stored \in [1..n -> BOOLEAN] :
          /\ file_rows = [i \in 1..n |->
                             [id |-> i, user_id |-> owner[i],
                              unique_filename |-> IF stored[i] THEN FileNames[i] ELSE NoKey,
                              filename |-> <<"x">>]]
          /\ bucket_keys = {FileNames[i] : i \in {j \in 1..n : stored[j]}}
    /\ commits = 0
    /\ last_call = [n |-> 0, op |-> "none", user_id |-> "", file_id |-> 0, result |-> "",
                    rows_before |-> <<>>, keys_before |-> {}, commits_before |-> 0]

NextOwner ==
    \/ delete_file
    \/ update_file

SpecOwner == InitOwner /\ [][NextOwner]_vars

\* C20: when no file with the given file_id is owned by the given user_id,
\* delete_file returns False and update_file returns None, and the call
\* changes no database row, commits nothing and deletes no object of the
\* bucket.
C20_OwnershipIsEnforced ==
    (/\ last_call.op # "none"
     /\ \A i \in 1..Len(last_call.rows_before) :
           ~(/\ last_call.rows_before[i].id = last_call.file_id
             /\ last_call.rows_before[i].user_id = last_call.user_id))
        => /\ last_call.result = IF last_call.op = "delete_file" THEN "False" ELSE "None"
           /\ file_rows = last_call.rows_before
           /\ bucket_keys = last_call.keys_before
           /\ commits = last_call.commits_before

\* The second of two calls without effect was a delete_file by a user on a
\* stored file of another user: the row, its object and the commit count are
\* as they were at the start.
C20_Witness ==
    /\ s3_client
    /\ last_call.n = 2
    /\ last_call.op = "delete_file"
    /\ last_call.result = "False"
    /\ commits = 0
    /\ \E i \in 1..Len(file_rows) :
          /\ file_rows[i].id = last_call.file_id
          /\ file_rows[i].user_id # last_call.user_id
          /\ file_rows[i].filename = <<"x">>
          /\ file_rows[i].unique_filename \in bucket_keys

====
